---- MODULE Spec2Model ----
(***************************************************************************)
(* Model of the IDIF AUC calculator: the numeric pipeline (utils/auc.ts,   *)
(* utils/parser.ts) and the App component state that drives it (App.tsx).  *)
(*                                                                         *)
(* JavaScript numbers are modelled as rationals <<n, d>> in lowest terms   *)
(* with d > 0.  In real arithmetic every +, -, *, / of the source is the   *)
(* exact operation; in floating-point arithmetic (getValueAtFloat) each    *)
(* result is rounded to a significand of MantissaBits bits, as IEEE 754    *)
(* rounds to 53.  A division by zero yields the non-finite marker <<0, 0>>.*)
(***************************************************************************)
EXTENDS Integers, Sequences, FiniteSets, TLC

VARIABLES realPoints, combinedPoints, timeCutoffs, results, error, warnings,
          tEndCommon, matchedCurves, priorRows, changes, call, ret

vars == <<realPoints, combinedPoints, timeCutoffs, results, error, warnings,
          tEndCommon, matchedCurves, priorRows, changes, call, ret>>

appVars == <<realPoints, combinedPoints, timeCutoffs, results, error, warnings,
             tEndCommon, matchedCurves, priorRows, changes>>

-----------------------------------------------------------------------------
(* Numbers *)

Abs(n) == IF n < 0 THEN -n ELSE n

RECURSIVE GCD(_, _)
GCD(a, b) == IF b = 0 THEN a ELSE GCD(b, a % b)

NonFinite == <<0, 0>>

Norm(n, d) ==
    IF d = 0 THEN NonFinite
    ELSE LET s == IF d < 0 THEN -1 ELSE 1
             g == GCD(Abs(n), Abs(d))
         IN  <<(s * n) \div g, (s * d) \div g>>

R(n) == <<n, 1>>

RAdd(a, b) == Norm(a[1] * b[2] + b[1] * a[2], a[2] * b[2])
RSub(a, b) == Norm(a[1] * b[2] - b[1] * a[2], a[2] * b[2])
RMul(a, b) == Norm(a[1] * b[1], a[2] * b[2])
RDiv(a, b) == Norm(a[1] * b[2], a[2] * b[1])
RLt(a, b)  == a[1] * b[2] < b[1] * a[2]
RLe(a, b)  == a[1] * b[2] <= b[1] * a[2]
RMin(a, b) == IF RLt(b, a) THEN b ELSE a

\* JS numbers are binary floating point: every arithmetic operation returns
\* the exact result rounded to the nearest number with a significand of
\* MantissaBits bits, ties to the even significand (53 bits in the program).
MantissaBits == 4

RECURSIVE Pow2(_)
Pow2(k) == IF k = 0 THEN 1 ELSE 2 * Pow2(k - 1)

\* n/d > 0 scaled by a power of two into [2^(MantissaBits-1), 2^MantissaBits):
\* <<n', d', e>> with n/d = (n'/d') * 2^e
RECURSIVE Scale(_, _, _)
Scale(n, d, e) ==
    IF n >= d * Pow2(MantissaBits) THEN Scale(n, 2 * d, e + 1)
    ELSE IF n < d * Pow2(MantissaBits - 1) THEN Scale(2 * n, d, e - 1)
    ELSE <<n, d, e>>

RoundHalfEven(n, d) ==
    IF 2 * (n % d) < d THEN n \div d
    ELSE IF 2 * (n % d) > d THEN (n \div d) + 1
    ELSE IF (n \div d) % 2 = 0 THEN n \div d
    ELSE (n \div d) + 1

Ldexp(m, e) == IF e >= 0 THEN Norm(m * Pow2(e), 1) ELSE Norm(m, Pow2(-e))

RoundScaled(s) == Ldexp(RoundHalfEven(s[1], s[2]), s[3])

\* the floating-point number nearest to x
Fl(x) ==
    IF x[2] = 0 \/ x[1] = 0 THEN x
    ELSE IF x[1] < 0 THEN RSub(R(0), RoundScaled(Scale(-x[1], x[2], 0)))
    ELSE RoundScaled(Scale(x[1], x[2], 0))

\* the four operations in the arithmetic ar: "real" keeps the exact result,
\* "float" rounds it
Rounded(ar, x) == IF ar = "float" THEN Fl(x) ELSE x

Add(ar, a, b) == Rounded(ar, RAdd(a, b))
Sub(ar, a, b) == Rounded(ar, RSub(a, b))
Mul(ar, a, b) == Rounded(ar, RMul(a, b))
Div(ar, a, b) == Rounded(ar, RDiv(a, b))

Pt(t, y) == [time |-> t, activity |-> y]

-----------------------------------------------------------------------------
(* Outcomes: a call either returns a value or throws an Error *)

NoError  == [kind |-> "none", detail |-> <<>>]
Ok(v)    == [ok |-> TRUE, err |-> NoError, val |-> v]
Throw(e) == [ok |-> FALSE, err |-> e, val |-> <<>>]

\* Error messages, as [kind, detail]: the detail is what the message interpolates
ErrEmptyInterp      == [kind |-> "Cannot interpolate: empty points array", detail |-> <<>>]
ErrNoBracket(T)     == [kind |-> "Could not interpolate at time", detail |-> T]
ErrEmptyClip        == [kind |-> "Cannot clip: empty points array", detail |-> <<>>]
ErrInvalidWindow(a, b) == [kind |-> "Invalid window", detail |-> <<a, b>>]
ErrInsufficient(curveName, n) == [kind |-> "Insufficient curve points", detail |-> <<curveName, n>>]
ErrStartTime(curveName) == [kind |-> "curve must start at time 0", detail |-> curveName]
ErrEndTime(t)       == [kind |-> "Common end time must be > 10 for 10-end computation", detail |-> t]
\* reading a property of undefined (points[1] of a one-element array, ...)
ErrTypeError        == [kind |-> "TypeError", detail |-> <<>>]

-----------------------------------------------------------------------------
(* Array helpers *)

Last(s) == s[Len(s)]

\* Array.prototype.sort with comparator (a, b) => a.time - b.time (stable)
RECURSIVE InsertByTime(_, _)
InsertByTime(s, p) ==
    IF s = <<>> THEN <<p>>
    ELSE IF RLt(p.time, Last(s).time)
         THEN Append(InsertByTime(SubSeq(s, 1, Len(s) - 1), p), Last(s))
         ELSE Append(s, p)

RECURSIVE SortByTime(_)
SortByTime(s) ==
    IF s = <<>> THEN <<>>
    ELSE InsertByTime(SortByTime(SubSeq(s, 1, Len(s) - 1)), Last(s))

\* Array.prototype.filter
RECURSIVE FilterLe(_, _)
FilterLe(s, T) ==
    IF s = <<>> THEN <<>>
    ELSE LET rest == FilterLe(SubSeq(s, 1, Len(s) - 1), T)
         IN  IF RLe(Last(s).time, T) THEN Append(rest, Last(s)) ELSE rest

StrictlyIncreasing(s) ==
    \A i \in 1..(Len(s) - 1) : RLt(s[i].time, s[i + 1].time)

-----------------------------------------------------------------------------
(* utils/auc.ts *)

\* the first i of the bracketing loop with points[i].time <= T <= points[i+1].time
Bracket(points, T) ==
    {i \in 1..(Len(points) - 1) :
        RLe(points[i].time, T) /\ RLe(T, points[i + 1].time)}

\* the activity of the boundary point, whatever T is
Extrapolate_Clamp(p0, p1, base, T, ar) == base.activity

\* p.activity + slope * (T - p.time) with the slope between p0 and p1
Extrapolate(p0, p1, base, T, ar) ==
    Add(ar, base.activity,
        Mul(ar, Div(ar, Sub(ar, p1.activity, p0.activity),
                        Sub(ar, p1.time, p0.time)),
                Sub(ar, T, base.time)))

\* p0.activity + (p1.activity - p0.activity) * fraction
Interpolate(p0, p1, T, ar) ==
    IF p0.time = p1.time THEN p0.activity
    ELSE Add(ar, p0.activity,
             Mul(ar, Sub(ar, p1.activity, p0.activity),
                     Div(ar, Sub(ar, T, p0.time), Sub(ar, p1.time, p0.time))))

\* the first pair of the array, whether it brackets T or not
FirstBracket_One(points, T) == 1

FirstBracket(points, T) ==
    CHOOSE j \in Bracket(points, T) : \A k \in Bracket(points, T) : j <= k

\* getValueAt in the arithmetic ar
getValueAtIn(points, T, ar) ==
    IF Len(points) = 0 THEN Throw(ErrEmptyInterp)
    ELSE IF T = points[1].time THEN Ok(points[1].activity)
    ELSE IF T = Last(points).time THEN Ok(Last(points).activity)
    ELSE IF RLt(T, points[1].time)
         THEN IF Len(points) < 2 THEN Throw(ErrTypeError)
              ELSE Ok(Extrapolate(points[1], points[2], points[1], T, ar))
    ELSE IF RLt(Last(points).time, T)
         THEN IF Len(points) < 2 THEN Throw(ErrTypeError)
              ELSE Ok(Extrapolate(points[Len(points) - 1], points[Len(points)],
                                  points[Len(points)], T, ar))
    ELSE IF Bracket(points, T) = {} THEN Throw(ErrNoBracket(T))
    ELSE Ok(Interpolate(points[FirstBracket(points, T)],
                        points[FirstBracket(points, T) + 1], T, ar))

\* getValueAt in real arithmetic
getValueAt(points, T) == getValueAtIn(points, T, "real")

\* getValueAt in floating-point arithmetic
getValueAtFloat(points, T) == getValueAtIn(points, T, "float")

\* the points p of the array with a < p.time < b, in array order
RECURSIVE Inside(_, _, _)
Inside(points, a, b) ==
    IF points = <<>> THEN <<>>
    ELSE LET rest == Inside(SubSeq(points, 1, Len(points) - 1), a, b)
             p    == Last(points)
         IN  IF RLt(a, p.time) /\ RLt(p.time, b) THEN Append(rest, p) ELSE rest

\* the dedup loop over `clipped` with the Set `seen`: the first point of each time
RECURSIVE DedupFirst(_)
DedupFirst(s) ==
    IF s = <<>> THEN <<>>
    ELSE LET rest == DedupFirst(SubSeq(s, 1, Len(s) - 1))
             p    == Last(s)
         IN  IF \E i \in 1..Len(rest) : rest[i].time = p.time
             THEN rest ELSE Append(rest, p)

\* a clip that ends at the last point when b lies beyond it
ClipWith_Clamp(points, a, b, va, vb) ==
    LET atStart == a = points[1].time
        atEnd   == b = Last(points).time \/ RLt(Last(points).time, b)
    IN  IF ~atStart /\ ~va.ok THEN va
        ELSE IF ~atEnd /\ ~vb.ok THEN vb
        ELSE Ok(SortByTime(DedupFirst(
                 <<IF atStart THEN points[1] ELSE Pt(a, va.val)>>
                 \o Inside(points, a, b)
                 \o <<IF atEnd THEN Last(points) ELSE Pt(b, vb.val)>>)))

\* clipCurveToInterval of a non-empty array; va and vb are what
\* getValueAt(points, a) and getValueAt(points, b) give where they are called
ClipWith(points, a, b, va, vb) ==
    LET atStart == a = points[1].time
        atEnd   == b = Last(points).time
    IN  IF ~atStart /\ ~va.ok THEN va
        ELSE IF ~atEnd /\ ~vb.ok THEN vb
        ELSE Ok(SortByTime(DedupFirst(
                 <<IF atStart THEN points[1] ELSE Pt(a, va.val)>>
                 \o Inside(points, a, b)
                 \o <<IF atEnd THEN Last(points) ELSE Pt(b, vb.val)>>)))

\* a clip without the guard on the empty array: points[0].time throws
clipCurveToInterval_Unguarded(points, a, b) ==
    IF Len(points) = 0 THEN Throw(ErrTypeError)
    ELSE ClipWith(points, a, b, getValueAt(points, a), getValueAt(points, b))

\* clipCurveToInterval: the guard on the empty array, then the clip
clipCurveToInterval(points, a, b) ==
    IF Len(points) = 0 THEN Throw(ErrEmptyClip)
    ELSE ClipWith(points, a, b, getValueAt(points, a), getValueAt(points, b))

\* the sum of y0 * (t1 - t0): rectangles on the left value
RECURSIVE trapezoidAUC_Rectangles(_)
trapezoidAUC_Rectangles(points) ==
    IF Len(points) < 2 THEN R(0)
    ELSE RAdd(trapezoidAUC_Rectangles(SubSeq(points, 1, Len(points) - 1)),
              RMul(points[Len(points) - 1].activity,
                   RSub(points[Len(points)].time,
                        points[Len(points) - 1].time)))

\* the area under the last segment only
trapezoidAUC_LastOnly(points) ==
    IF Len(points) < 2 THEN R(0)
    ELSE RMul(RDiv(RAdd(points[Len(points) - 1].activity,
                        points[Len(points)].activity), R(2)),
              RSub(points[Len(points)].time, points[Len(points) - 1].time))

RECURSIVE trapezoidAUC(_)
trapezoidAUC(points) ==
    IF Len(points) < 2 THEN R(0)
    ELSE LET n     == Len(points)
             t0    == points[n - 1].time
             y0    == points[n - 1].activity
             t1    == points[n].time
             y1    == points[n].activity
             dt    == RSub(t1, t0)
             avgY  == RDiv(RAdd(y0, y1), R(2))
         IN  RAdd(trapezoidAUC(SubSeq(points, 1, n - 1)), RMul(avgY, dt))

\* trapezoidAUC(clipped), unless the clip threw
AucOf(clipped) ==
    IF ~clipped.ok THEN clipped ELSE Ok(trapezoidAUC(clipped.val))

\* the window checked only after the curve has been clipped
aucInWindow_ClipFirst(points, a, b) ==
    IF ~clipCurveToInterval(points, a, b).ok
    THEN clipCurveToInterval(points, a, b)
    ELSE IF RLe(b, a) THEN Throw(ErrInvalidWindow(a, b))
    ELSE AucOf(clipCurveToInterval(points, a, b))

aucInWindow(points, a, b) ==
    IF RLe(b, a) THEN Throw(ErrInvalidWindow(a, b))
    ELSE AucOf(clipCurveToInterval(points, a, b))

\* push({ time: tEndCommon, activity: valueAtEnd })
PushEnd(kept, tEnd, valueAtEnd) ==
    IF ~valueAtEnd.ok THEN valueAtEnd
    ELSE Ok(Append(kept, Pt(tEnd, valueAtEnd.val)))

\* Truncate that pushes a point at tEndCommon whether one is there or not
Truncate_AlwaysPush(points, kept, tEnd) ==
    IF kept = <<>> THEN Throw(ErrTypeError)
    ELSE PushEnd(kept, tEnd, getValueAt(points, tEnd))

\* Truncate without the push of the point at tEndCommon
Truncate_NoPush(points, kept, tEnd) ==
    IF kept = <<>> THEN Throw(ErrTypeError) ELSE Ok(kept)

\* the branch of a curve that ends after tEndCommon; kept is the filtered array
Truncate(points, kept, tEnd) ==
    IF kept = <<>> THEN Throw(ErrTypeError)
    ELSE IF Last(kept).time # tEnd
         THEN PushEnd(kept, tEnd, getValueAt(points, tEnd))
         ELSE Ok(kept)

\* one curve's branch of matchEndTimes, before the final sort
MatchOne(points, endT, tEnd) ==
    IF endT = tEnd THEN Ok(points)
    ELSE IF RLt(tEnd, endT) THEN Truncate(points, FilterLe(points, tEnd), tEnd)
    ELSE PushEnd(points, tEnd, getValueAt(points, tEnd))

\* the final sorts and the returned object
SortBoth(rm, cm, tEnd) ==
    IF ~rm.ok THEN rm
    ELSE IF ~cm.ok THEN cm
    ELSE Ok([realMatched     |-> SortByTime(rm.val),
             combinedMatched |-> SortByTime(cm.val),
             tEndCommon      |-> tEnd])

\* matchEndTimes once endReal and endCombined are read
MatchEnds(rPoints, cPoints, endReal, endCombined) ==
    SortBoth(MatchOne(rPoints, endReal, RMin(endReal, endCombined)),
             MatchOne(cPoints, endCombined, RMin(endReal, endCombined)),
             RMin(endReal, endCombined))

matchEndTimes(rPoints, cPoints) ==
    IF rPoints = <<>> \/ cPoints = <<>> THEN Throw(ErrTypeError)
    ELSE MatchEnds(rPoints, cPoints, Last(rPoints).time, Last(cPoints).time)

-----------------------------------------------------------------------------
(* utils/parser.ts *)

(* A text is a sequence of lines ('\n'-separated), a line a sequence of     *)
(* fields ('\t'-separated), a field a sequence of tokens (separated by     *)
(* blanks).  A token is what parseFloat makes of it: a number or NaN.      *)
Num(v) == [num |-> TRUE, v |-> v]
Junk   == [num |-> FALSE, v |-> R(0)]

\* String.prototype.trim on a line: leading and trailing empty fields go
RECURSIVE TrimLine(_)
TrimLine(line) ==
    IF line = <<>> THEN <<>>
    ELSE IF line[1] = <<>> THEN TrimLine(Tail(line))
    ELSE IF Last(line) = <<>> THEN TrimLine(SubSeq(line, 1, Len(line) - 1))
    ELSE line

\* line.split('\t'), or line.split(/\s+/) when that gives fewer than 2 parts
SplitParts(line) ==
    IF Len(line) < 2 THEN [i \in 1..Len(line[1]) |-> <<line[1][i]>>]
    ELSE line

\* parseFloat(part): the number the part starts with, else NaN
ParseFloat(part) == IF part = <<>> THEN Junk ELSE part[1]

\* the loop over parts collecting the non-NaN numbers
RECURSIVE Numbers(_)
Numbers(parts) ==
    IF parts = <<>> THEN <<>>
    ELSE LET rest == Numbers(SubSeq(parts, 1, Len(parts) - 1))
             num  == ParseFloat(Last(parts))
         IN  IF num.num THEN Append(rest, num.v) ELSE rest

\* the loop over lines of parseRawPoints / parseCurve
RECURSIVE parseRawPoints(_)
parseRawPoints(text) ==
    IF text = <<>> THEN <<>>
    ELSE LET rest == parseRawPoints(SubSeq(text, 1, Len(text) - 1))
             line == TrimLine(Last(text))
         IN  IF line = <<>> THEN rest
             ELSE LET numbers == Numbers(SplitParts(line))
                  IN  IF Len(numbers) < 2 THEN rest
                      ELSE Append(rest, Pt(numbers[1], numbers[2]))

\* duplicates looked for against the point just before only
RECURSIVE DuplicateTimes_Adjacent(_)
DuplicateTimes_Adjacent(points) ==
    IF Len(points) < 2 THEN <<>>
    ELSE LET n    == Len(points)
             rest == DuplicateTimes_Adjacent(SubSeq(points, 1, n - 1))
         IN  IF points[n - 1].time = points[n].time
             THEN Append(rest, points[n].time) ELSE rest

\* the times pushed to duplicateTimes, in input order
RECURSIVE DuplicateTimes(_)
DuplicateTimes(points) ==
    IF points = <<>> THEN <<>>
    ELSE LET n    == Len(points)
             rest == DuplicateTimes(SubSeq(points, 1, n - 1))
         IN  IF \E i \in 1..(n - 1) : points[i].time = points[n].time
             THEN Append(rest, points[n].time) ELSE rest

\* a Map whose set ignores a key it already holds
MapSet_KeepFirst(m, p) ==
    IF \E i \in 1..Len(m) : m[i].time = p.time THEN m ELSE Append(m, p)

\* Map.prototype.set: a new key goes last, an old key keeps its place
MapSet(m, p) ==
    IF \E i \in 1..Len(m) : m[i].time = p.time
    THEN [i \in 1..Len(m) |-> IF m[i].time = p.time THEN p ELSE m[i]]
    ELSE Append(m, p)

\* the Map `seen` after the loop over `sorted`, as its entries in order
RECURSIVE SeenMap(_)
SeenMap(sorted) ==
    IF sorted = <<>> THEN <<>>
    ELSE MapSet(SeenMap(SubSeq(sorted, 1, Len(sorted) - 1)), Last(sorted))

WasMonotonic(points) ==
    \A i \in 2..Len(points) : ~RLt(points[i].time, points[i - 1].time)

WarnDuplicate(times) == [kind |-> "Found duplicate times", times |-> times]
WarnReorder          == [kind |-> "Times were not monotonic; sorted to fix.",
                         times |-> <<>>]

\* warnings.push of the duplicate-time message
PushDuplicates(warns, duplicateTimes) ==
    IF Len(duplicateTimes) > 0
    THEN Append(warns, WarnDuplicate(duplicateTimes)) ELSE warns

\* a reorder warning pushed whatever the order was
PushReorder_Always(warns, wasMonotonic) == Append(warns, WarnReorder)

\* warnings.push of the reorder message
PushReorder(warns, wasMonotonic) ==
    IF ~wasMonotonic THEN Append(warns, WarnReorder) ELSE warns

normalizeCurve(points, warns) ==
    [points   |-> SortByTime(SeenMap(SortByTime(points))),
     warnings |-> PushReorder(PushDuplicates(warns, DuplicateTimes(points)),
                              WasMonotonic(points))]

\* parseCurve without the start-time check
CheckStart_Any(normalized, curveName) == Ok(normalized)

\* parseCurve from the normalizeCurve call on
CheckStart(normalized, curveName) ==
    IF normalized.points[1].time # R(0) THEN Throw(ErrStartTime(curveName))
    ELSE Ok(normalized)


\* parseCurve from the minimum-points check on
CheckPoints(points, curveName) ==
    IF Len(points) < 2 THEN Throw(ErrInsufficient(curveName, Len(points)))
    ELSE CheckStart(normalizeCurve(points, <<>>), curveName)

parseCurve(text, curveName) == CheckPoints(parseRawPoints(text), curveName)

\* the Combined curve's warnings spread before the Real curve's
ParsedData_CombinedFirst(realResult, combinedResult) ==
    IF ~realResult.ok THEN realResult
    ELSE IF ~combinedResult.ok THEN combinedResult
    ELSE Ok([realPoints     |-> realResult.val.points,
             combinedPoints |-> combinedResult.val.points,
             warnings       |-> combinedResult.val.warnings
                                  \o realResult.val.warnings])

\* the object parsePastedText returns, unless a parseCurve call threw
ParsedData(realResult, combinedResult) ==
    IF ~realResult.ok THEN realResult
    ELSE IF ~combinedResult.ok THEN combinedResult
    ELSE Ok([realPoints     |-> realResult.val.points,
             combinedPoints |-> combinedResult.val.points,
             warnings       |-> realResult.val.warnings
                                  \o combinedResult.val.warnings])

parsePastedText(realText, combinedText) ==
    ParsedData(parseCurve(realText, "Real"),
               parseCurve(combinedText, "Combined"))

-----------------------------------------------------------------------------
(* App.tsx: the component state and its handlers *)

DefaultCutoff1   == 5
DefaultCutoff2   == 10
EndTimeThreshold == 10
AddRowStep       == 5

Null        == [set |-> FALSE, v |-> <<>>]
Some(v)     == [set |-> TRUE, v |-> v]
Dash        == [num |-> FALSE, v |-> R(0)]

\* realPoints.map(p => `${p.time}\t${p.activity}`).join('\n'); ''.split('\n')
\* is one empty line
FormatPoints(points) ==
    IF points = <<>> THEN <<<<>>>>
    ELSE [i \in 1..Len(points) |->
            <<<<Num(points[i].time)>>, <<Num(points[i].activity)>>>>]

\* the bias as a fraction instead of a percentage
BiasPercent_Fraction(idif, real) ==
    IF real # R(0) THEN Num(RDiv(RSub(idif, real), real)) ELSE Dash

\* realX !== 0 ? ((idifX - realX) / realX) * 100 : '-'
BiasPercent(idif, real) ==
    IF real # R(0) THEN Num(RMul(RDiv(RSub(idif, real), real), R(100)))
    ELSE Dash

\* the row pushed by one block of handleCompute, or the Error one of its two
\* aucInWindow calls threw
PushRow(label, idif, real) ==
    IF ~idif.ok THEN idif
    ELSE IF ~real.ok THEN real
    ELSE Ok([label       |-> label,
             idifAUC     |-> idif.val,
             realAUC     |-> real.val,
             biasPercent |-> BiasPercent(idif.val, real.val)])

\* the four blocks over the windows of the default cutoffs
WindowRows_Defaults(matched, cutoffs) ==
    LET tEnd   == matched.tEndCommon
        label  == <<"Combined", "0-5 min", "0-10 min", "10-end">>
        start  == <<R(0), R(0), R(0), R(DefaultCutoff2)>>
        end    == <<tEnd, R(DefaultCutoff1), R(DefaultCutoff2), tEnd>>
    IN  [i \in 1..4 |->
            PushRow(label[i],
                    aucInWindow(matched.combinedMatched, start[i], end[i]),
                    aucInWindow(matched.realMatched, start[i], end[i]))]

\* the four blocks with the last window opened at the first cutoff
WindowRows_LastFromFirst(matched, cutoffs) ==
    LET tEnd   == matched.tEndCommon
        label  == <<"Combined", "0-5 min", "0-10 min", "10-end">>
        start  == <<R(0), R(0), R(0), cutoffs[1]>>
        end    == <<tEnd, cutoffs[1], cutoffs[2], tEnd>>
    IN  [i \in 1..4 |->
            PushRow(label[i],
                    aucInWindow(matched.combinedMatched, start[i], end[i]),
                    aucInWindow(matched.realMatched, start[i], end[i]))]

\* the four blocks of handleCompute in program order, each over its window
WindowRows(matched, cutoffs) ==
    LET tEnd   == matched.tEndCommon
        label  == <<"Combined", "0-5 min", "0-10 min", "10-end">>
        start  == <<R(0), R(0), R(0), cutoffs[2]>>
        end    == <<tEnd, cutoffs[1], cutoffs[2], tEnd>>
    IN  [i \in 1..4 |->
            PushRow(label[i],
                    aucInWindow(matched.combinedMatched, start[i], end[i]),
                    aucInWindow(matched.realMatched, start[i], end[i]))]

\* the setters that have run when handleCompute returns
Outcome(res, err, warns, tEnd, curves) ==
    [results |-> res, error |-> err, warnings |-> warns,
     tEndCommon |-> tEnd, matchedCurves |-> curves]

EndTimeCheck(tEnd) == RLe(tEnd, R(EndTimeThreshold))

\* the first block that threw, if any
FirstFailed(rows) ==
    LET failed == {i \in 1..Len(rows) : ~rows[i].ok}
    IN  IF failed = {} THEN 0
        ELSE CHOOSE j \in failed : \A k \in failed : j <= k

\* a catch block that keeps the rows pushed before the throw
AfterRows_Partial(rows, warns, tEnd, curves) ==
    IF FirstFailed(rows) # 0
    THEN Outcome([i \in 1..(FirstFailed(rows) - 1) |-> rows[i].val],
                 rows[FirstFailed(rows)].err, warns, tEnd, curves)
    ELSE Outcome([i \in 1..Len(rows) |-> rows[i].val], NoError, warns,
                 tEnd, curves)

\* setResults(newResults), or the catch block after a block threw
AfterRows(rows, warns, tEnd, curves) ==
    IF FirstFailed(rows) # 0
    THEN Outcome(<<>>, rows[FirstFailed(rows)].err, warns, tEnd, curves)
    ELSE Outcome([i \in 1..Len(rows) |-> rows[i].val], NoError, warns,
                 tEnd, curves)

\* handleCompute from setTEndCommon on
AfterMatch(matched, warns, cutoffs) ==
    IF EndTimeCheck(matched.tEndCommon)
    THEN Outcome(<<>>, ErrEndTime(matched.tEndCommon), warns,
                 Some(matched.tEndCommon),
                 Some([real     |-> matched.realMatched,
                       combined |-> matched.combinedMatched]))
    ELSE AfterRows(WindowRows(matched, cutoffs), warns,
                   Some(matched.tEndCommon),
                   Some([real     |-> matched.realMatched,
                         combined |-> matched.combinedMatched]))

\* handleCompute from setWarnings on
AfterParse(parsed, m, cutoffs, oldCurves) ==
    IF ~m.ok THEN Outcome(<<>>, m.err, parsed.warnings, Null, oldCurves)
    ELSE AfterMatch(m.val, parsed.warnings, cutoffs)

Matched(parsed) == matchEndTimes(parsed.realPoints, parsed.combinedPoints)

\* handleCompute: the state its setters leave
TryCompute(parsed, cutoffs, oldCurves) ==
    IF ~parsed.ok THEN Outcome(<<>>, parsed.err, <<>>, Null, oldCurves)
    ELSE AfterParse(parsed.val, Matched(parsed.val), cutoffs, oldCurves)

ComputeOutcome(rPoints, cPoints, cutoffs, oldCurves) ==
    TryCompute(parsePastedText(FormatPoints(rPoints), FormatPoints(cPoints)),
               cutoffs, oldCurves)

SetOutcome(o) ==
    /\ results' = o.results
    /\ error' = o.error
    /\ warnings' = o.warnings
    /\ tEndCommon' = o.tEndCommon
    /\ matchedCurves' = o.matchedCurves

HandleCompute ==
    /\ UNCHANGED <<realPoints, combinedPoints, timeCutoffs, changes, call, ret>>
    /\ priorRows' = Len(results)
    /\ SetOutcome(ComputeOutcome(realPoints, combinedPoints, timeCutoffs,
                                 matchedCurves))

\* the charts section is rendered, with the state as it is now
ChartsShown == results # <<>> /\ matchedCurves.set /\ tEndCommon.set

\* the (startTime, endTime) of the four createChartData calls of a render
ChartWindows ==
    << <<R(0), timeCutoffs[1]>>,
       <<R(0), timeCutoffs[2]>>,
       <<timeCutoffs[2], tEndCommon.v>>,
       <<R(0), tEndCommon.v>> >>

\* the two clipCurveToInterval calls of createChartData, or null
createChartData(realCurve, combinedCurve, startTime, endTime) ==
    IF Len(realCurve) = 0 \/ Len(combinedCurve) = 0 THEN Null
    ELSE Some([realClipped     |-> clipCurveToInterval(realCurve, startTime,
                                                       endTime),
               combinedClipped |-> clipCurveToInterval(combinedCurve, startTime,
                                                       endTime),
               startTime       |-> startTime,
               endTime         |-> endTime])

\* the chart data of the i-th chart of the charts section
Chart(i) ==
    createChartData(matchedCurves.v.real, matchedCurves.v.combined,
                    ChartWindows[i][1], ChartWindows[i][2])

-----------------------------------------------------------------------------
(* The inputs the handlers are driven with *)

MaxRows == 3

\* changes (table edits and cutoff changes) made to what was pasted
MaxChanges == 1

Curves == {"Real", "Combined"}

TabLine(t, y)   == <<<<Num(R(t))>>, <<Num(R(y))>>>>
SpaceLine(t, y) == <<<<Num(R(t)), Num(R(y))>>>>

\* clipboard texts: a curve ending at 15 with a header line, a blank line and
\* blank-separated columns; a shuffled curve ending at 20 with a repeated
\* time; a curve ending at 10
PasteTexts ==
    { <<<<<<Junk>>, <<Junk>>>>, SpaceLine(0, 0), <<>>, TabLine(10, 0),
        TabLine(15, 2)>>,
      <<TabLine(20, 4), TabLine(0, 2), TabLine(10, 1), TabLine(10, 3)>>,
      <<TabLine(0, 1), TabLine(10, 3)>> }

\* the table row that is edited or deleted: the first
EditRows(points) == {1} \cap (1..Len(points))

\* what is typed into a table cell: '' or a number
EditValues == {<<>>, <<Junk>>, <<Num(R(5))>>}

\* what is typed into a cutoff input
CutoffValues == {<<>>, <<Num(R(0 - 5))>>, <<Num(R(5))>>, <<Num(R(20))>>}

\* setRealPoints or setCombinedPoints, as the handler was bound
SetPoints(which, points) ==
    IF which = "Real"
    THEN realPoints' = points /\ UNCHANGED combinedPoints
    ELSE combinedPoints' = points /\ UNCHANGED realPoints

PointsOf(which) == IF which = "Real" THEN realPoints ELSE combinedPoints

Outputs == <<results, error, warnings, tEndCommon, matchedCurves, priorRows>>

HandlePaste ==
    \E which \in Curves, text \in PasteTexts :
        /\ SetPoints(which, parseRawPoints(text))
        /\ UNCHANGED <<timeCutoffs, Outputs, changes, call, ret>>

\* a clear that takes the report shown with it
HandleKeyDown_ClearsReport ==
    \E which \in Curves :
        /\ SetPoints(which, <<>>)
        /\ results' = <<>>
        /\ UNCHANGED <<timeCutoffs, error, warnings, tEndCommon, matchedCurves,
                       priorRows, changes, call, ret>>

\* Delete or Backspace on the empty paste area
HandleKeyDown ==
    \E which \in Curves :
        /\ SetPoints(which, <<>>)
        /\ UNCHANGED <<timeCutoffs, Outputs, changes, call, ret>>

\* value is the typed string: a token, or <<>> for ''
HandleCellEdit ==
    \E which \in Curves, field \in {"time", "activity"}, value \in EditValues :
      \E index \in EditRows(PointsOf(which)) :
        LET numValue  == ParseFloat(value)
            points    == PointsOf(which)
            v         == IF numValue.num THEN numValue.v ELSE R(0)
            edited    == IF field = "time"
                         THEN [points EXCEPT ![index].time = v]
                         ELSE [points EXCEPT ![index].activity = v]
            newPoints == IF field = "time" THEN SortByTime(edited) ELSE edited
        IN  /\ changes < MaxChanges
            /\ changes' = changes + 1
            /\ numValue.num \/ value = <<>>
            /\ SetPoints(which, newPoints)
            /\ UNCHANGED <<timeCutoffs, Outputs, call, ret>>

HandleAddRow ==
    \E which \in Curves :
        LET points   == PointsOf(which)
            lastTime == IF Len(points) > 0 THEN Last(points).time ELSE R(0)
            newPoint == Pt(RAdd(lastTime, R(AddRowStep)), R(0))
        IN  /\ changes < MaxChanges
            /\ changes' = changes + 1
            /\ Len(points) < MaxRows
            /\ SetPoints(which, SortByTime(Append(points, newPoint)))
            /\ UNCHANGED <<timeCutoffs, Outputs, call, ret>>

HandleDeleteRow ==
    \E which \in Curves :
      \E index \in EditRows(PointsOf(which)) :
        LET points == PointsOf(which)
        IN  /\ changes < MaxChanges
            /\ changes' = changes + 1
            /\ Len(points) > 1
            /\ SetPoints(which, SubSeq(points, 1, index - 1)
                                  \o SubSeq(points, index + 1, Len(points)))
            /\ UNCHANGED <<timeCutoffs, Outputs, call, ret>>

\* parseFloat(e.target.value) || fallback
OrDefault(value, fallback) ==
    LET num == ParseFloat(value)
    IN  IF num.num /\ num.v # R(0) THEN num.v ELSE R(fallback)

SetCutoff1 ==
    \E value \in CutoffValues :
        /\ changes < MaxChanges
        /\ changes' = changes + 1
        /\ timeCutoffs' = <<OrDefault(value, DefaultCutoff1), timeCutoffs[2]>>
        /\ UNCHANGED <<realPoints, combinedPoints, Outputs, call, ret>>

SetCutoff2 ==
    \E value \in CutoffValues :
        /\ changes < MaxChanges
        /\ changes' = changes + 1
        /\ timeCutoffs' = <<timeCutoffs[1], OrDefault(value, DefaultCutoff2)>>
        /\ UNCHANGED <<realPoints, combinedPoints, Outputs, call, ret>>

Idle    == [fn |-> "none", args |-> <<>>]
Pending == [ok |-> FALSE, err |-> [kind |-> "pending", detail |-> <<>>],
            val |-> <<>>]
Returned == ret.err.kind # "pending"

Init ==
    /\ realPoints = <<>>
    /\ combinedPoints = <<>>
    /\ timeCutoffs = <<R(DefaultCutoff1), R(DefaultCutoff2)>>
    /\ results = <<>>
    /\ error = NoError
    /\ warnings = <<>>
    /\ tEndCommon = Null
    /\ matchedCurves = Null
    /\ priorRows = 0
    /\ changes = 0
    /\ call = Idle
    /\ ret = Pending

Next ==
    \/ HandlePaste
    \/ HandleKeyDown
    \/ HandleCellEdit
    \/ HandleAddRow
    \/ HandleDeleteRow
    \/ SetCutoff1
    \/ SetCutoff2
    \/ HandleCompute

Spec == Init /\ [][Next]_vars

-----------------------------------------------------------------------------
(* The library functions called on their own: the arguments are drawn in   *)
(* the initial state and one step applies the function.                    *)

MaxLen   == 3
MaxLines == 3

FnTimes == {0, 5, 10, 15}
FnActs  == {0, 3}

SeqsUpTo(S, n) == UNION {[1..k -> S] : k \in 0..n}

FnPoints == {Pt(R(t), R(y)) : t \in FnTimes, y \in FnActs}

\* arrays of 2..MaxLen points with strictly increasing times
IncCurves ==
    {c \in SeqsUpTo(FnPoints, MaxLen) : Len(c) >= 2 /\ StrictlyIncreasing(c)}

\* arrays of up to MaxLen points in any order, times repeated or not
RawTimes  == {0, 5, 10}
RawActs   == {1, 2}
RawPoints == {Pt(R(t), R(y)) : t \in RawTimes, y \in RawActs}
RawCurves == SeqsUpTo(RawPoints, MaxLen)

\* lines of a pasted text: time<TAB>activity, an empty line, a line with one
\* number, a header before two numbers, blank-separated columns, a field
\* holding two numbers, tabs around the columns
LineTimes == {0, 5}
LineActs  == {1, 2}
Lines ==
    {TabLine(t, y) : t \in LineTimes, y \in LineActs}
    \cup { <<>>,
           <<<<Num(R(5))>>>>,
           <<<<Junk>>, <<Num(R(0))>>, <<Num(R(1))>>>>,
           SpaceLine(5, 1),
           <<<<Num(R(0)), Num(R(9))>>, <<Num(R(2))>>>>,
           <<<<>>, <<Num(R(0))>>, <<Num(R(1))>>, <<>>>> }
Texts == SeqsUpTo(Lines, MaxLines)

InitCall(calls) ==
    /\ realPoints = <<>>
    /\ combinedPoints = <<>>
    /\ timeCutoffs = <<R(DefaultCutoff1), R(DefaultCutoff2)>>
    /\ results = <<>>
    /\ error = NoError
    /\ warnings = <<>>
    /\ tEndCommon = Null
    /\ matchedCurves = Null
    /\ priorRows = 0
    /\ changes = 0
    /\ call \in calls
    /\ ret = Pending

Call(fn, args) == [fn |-> fn, args |-> args]

Return(value) ==
    /\ ~Returned
    /\ ret' = value
    /\ UNCHANGED <<appVars, call>>

MatchCalls == {Call("matchEndTimes", <<r, c>>) : r \in IncCurves, c \in IncCurves}

ApplyMatchEndTimes ==
    /\ call.fn = "matchEndTimes"
    /\ Return(matchEndTimes(call.args[1], call.args[2]))

SpecMatch == InitCall(MatchCalls) /\ [][ApplyMatchEndTimes]_vars

ParseCalls == {Call("parseCurve", <<text, name>>) : text \in Texts, name \in Curves}

ApplyParseCurve ==
    /\ call.fn = "parseCurve"
    /\ Return(parseCurve(call.args[1], call.args[2]))

\* texts of data lines only, for the two arguments of parsePastedText
DataLines == {TabLine(t, y) : t \in LineTimes, y \in LineActs}
DataTexts == SeqsUpTo(DataLines, MaxLines)

PastedCalls ==
    {Call("parsePastedText", <<realText, combinedText>>) :
        realText \in DataTexts, combinedText \in DataTexts}

ApplyParsePastedText ==
    /\ call.fn = "parsePastedText"
    /\ Return(parsePastedText(call.args[1], call.args[2]))

SpecParse ==
    /\ InitCall(ParseCalls \cup PastedCalls)
    /\ [][ApplyParseCurve \/ ApplyParsePastedText]_vars

NormalizeCalls ==
    {Call("normalizeCurve", <<points, warns>>) :
        points \in RawCurves, warns \in {<<>>, <<WarnReorder>>}}

\* the array returned and the warnings array as the call leaves it
ApplyNormalizeCurve ==
    /\ call.fn = "normalizeCurve"
    /\ Return(Ok(normalizeCurve(call.args[1], call.args[2])))

SpecNormalize == InitCall(NormalizeCalls) /\ [][ApplyNormalizeCurve]_vars

\* getValueAt in real arithmetic: arrays of up to MaxLen points with strictly
\* increasing times, asked at sample times, between samples and outside
ValueActs  == {0, 3, 10}
QueryTimes == {0 - 5, 0, 4, 5, 10, 12, 15, 20}
ValuePoints == {Pt(R(t), R(y)) : t \in FnTimes, y \in ValueActs}
ValueCurves == {c \in SeqsUpTo(ValuePoints, MaxLen) : StrictlyIncreasing(c)}

ValueCalls ==
    {Call("getValueAt", <<points, R(T)>>) :
        points \in ValueCurves, T \in QueryTimes}

ApplyGetValueAt ==
    /\ call.fn = "getValueAt"
    /\ Return(getValueAt(call.args[1], call.args[2]))

SpecValueAt == InitCall(ValueCalls) /\ [][ApplyGetValueAt]_vars

\* getValueAt in floating-point arithmetic: the arguments are floating-point
\* numbers, among them an activity of one bit more than the significand holds
FloatTimes == {0, 5, 10}
FloatActs  == {0, 1, Pow2(MantissaBits + 1)}
FloatPoints == {Pt(R(t), R(y)) : t \in FloatTimes, y \in FloatActs}
FloatCurves ==
    {c \in SeqsUpTo(FloatPoints, MaxLen) : Len(c) >= 2 /\ StrictlyIncreasing(c)}

FloatCalls ==
    {Call("getValueAt", <<points, R(T)>>) :
        points \in FloatCurves, T \in FloatTimes}

ApplyGetValueAtFloat ==
    /\ call.fn = "getValueAt"
    /\ Return(getValueAtFloat(call.args[1], call.args[2]))

SpecValueAtFloat == InitCall(FloatCalls) /\ [][ApplyGetValueAtFloat]_vars

\* clipCurveToInterval and aucInWindow: every window over WindowTimes, empty
\* and reversed ones included, on arrays of up to MaxLen points
WindowTimes == {0 - 5, 0, 4, 5, 10, 20}

ClipCalls ==
    {Call("clipCurveToInterval", <<points, R(a), R(b)>>) :
        points \in ValueCurves, a \in WindowTimes, b \in WindowTimes}

ApplyClipCurveToInterval ==
    /\ call.fn = "clipCurveToInterval"
    /\ Return(clipCurveToInterval(call.args[1], call.args[2], call.args[3]))

SpecClip == InitCall(ClipCalls) /\ [][ApplyClipCurveToInterval]_vars

AucCalls ==
    {Call("aucInWindow", <<points, R(a), R(b)>>) :
        points \in ValueCurves, a \in WindowTimes, b \in WindowTimes}

ApplyAucInWindow ==
    /\ call.fn = "aucInWindow"
    /\ Return(aucInWindow(call.args[1], call.args[2], call.args[3]))

\* the report computation of handleCompute as a function of the two tables
\* and the two cutoffs, from a state without stored curves
ReportCurves ==
    { <<>>,
      <<Pt(R(0), R(1)), Pt(R(10), R(3))>>,
      <<Pt(R(0), R(0)), Pt(R(10), R(0)), Pt(R(15), R(2))>>,
      <<Pt(R(0), R(2)), Pt(R(20), R(4))>> }
ReportCutoffs == {0 - 5, 0, 5, 20}

ReportCalls ==
    {Call("handleCompute", <<rPoints, cPoints, <<R(cutoffA), R(cutoffB)>>>>) :
        rPoints \in ReportCurves, cPoints \in ReportCurves,
        cutoffA \in ReportCutoffs, cutoffB \in ReportCutoffs}

ApplyHandleCompute ==
    /\ call.fn = "handleCompute"
    /\ Return(Ok(ComputeOutcome(call.args[1], call.args[2], call.args[3], Null)))

SpecAuc ==
    /\ InitCall(AucCalls \cup ReportCalls)
    /\ [][ApplyAucInWindow \/ ApplyHandleCompute]_vars

\* trapezoidAUC on arrays of up to MaxLen points in any order, negative
\* activities among them
AreaTimes  == {0, 5, 10}
AreaActs   == {0 - 3, 0, 10}
AreaPoints == {Pt(R(t), R(y)) : t \in AreaTimes, y \in AreaActs}

TrapezoidCalls ==
    {Call("trapezoidAUC", <<points>>) : points \in SeqsUpTo(AreaPoints, MaxLen)}

ApplyTrapezoidAUC ==
    /\ call.fn = "trapezoidAUC"
    /\ Return(Ok(trapezoidAUC(call.args[1])))

SpecTrapezoid == InitCall(TrapezoidCalls) /\ [][ApplyTrapezoidAUC]_vars

-----------------------------------------------------------------------------
(* Properties *)

KindEndTime      == ErrEndTime(R(0)).kind
KindInvalid      == ErrInvalidWindow(R(0), R(0)).kind
KindInsufficient == ErrInsufficient("Real", 0).kind
KindStartTime    == ErrStartTime("Real").kind

Failed    == error.kind # "none"
Succeeded == error.kind = "none" /\ results # <<>>

\* tEndCommon is the smaller of the two last times and both matched curves
\* end exactly there
MatchEndsAtMin ==
    /\ ret.ok
    /\ ret.val.tEndCommon = RMin(Last(call.args[1]).time, Last(call.args[2]).time)
    /\ Last(ret.val.realMatched).time = ret.val.tEndCommon
    /\ Last(ret.val.combinedMatched).time = ret.val.tEndCommon

\* each curve starts no later than the other one ends
Overlapping(r, c) ==
    /\ RLe(r[1].time, Last(c).time)
    /\ RLe(c[1].time, Last(r).time)

\* C1 as stated: for ANY two strictly increasing curves of at least 2 points
\* matchEndTimes returns tEndCommon = min of the two last times and both
\* matched curves end exactly at tEndCommon.
C1_AnyCurves ==
    (call.fn = "matchEndTimes" /\ Returned) => MatchEndsAtMin

\* C1 amended: the same, for two strictly increasing curves of at least 2
\* points each of which starts no later than the other one ends (as curves
\* that start at time 0 do).
C1_MatchEndTimes ==
    (/\ call.fn = "matchEndTimes"
     /\ Returned
     /\ Overlapping(call.args[1], call.args[2])) => MatchEndsAtMin

\* the longer curve has no sample at the common end: a point is synthesized
C1_Witness ==
    /\ call.fn = "matchEndTimes"
    /\ Returned
    /\ ret.ok
    /\ Overlapping(call.args[1], call.args[2])
    /\ Last(call.args[1]).time # Last(call.args[2]).time
    /\ Len(ret.val.realMatched) = 3
    /\ \A i \in 1..Len(call.args[1]) :
           call.args[1][i].time # ret.val.tEndCommon

\* C2 as stated: whenever the matched common end time is <= cutoffB, the
\* handleCompute that matched the curves ends with the incompatible-end-time
\* error (tEndCommon' is set exactly when parsing and matching went through).
C2_EndTimeAgainstCutoffB ==
    [][(/\ HandleCompute
        /\ tEndCommon'.set
        /\ RLe(tEndCommon'.v, timeCutoffs[2])) => error'.kind = KindEndTime]_vars

\* C3 as stated: when both curves parse and match, 0 < cutoffA and
\* 0 < cutoffB < commonEndTime, handleCompute does not fail and stores the
\* four rows.
C3_SucceedsBelowEnd ==
    [][(/\ HandleCompute
        /\ tEndCommon'.set
        /\ RLt(R(0), timeCutoffs[1])
        /\ RLt(R(0), timeCutoffs[2])
        /\ RLt(timeCutoffs[2], tEndCommon'.v))
          => (error'.kind = "none" /\ Len(results') = 4)]_vars

RowLabels == <<"Combined", "0-5 min", "0-10 min", "10-end">>

\* the window of row i for cutoffs (cutoffA, cutoffB) and end time tEnd
RowWindow(i, cutoffs, tEnd) ==
    CASE i = 1 -> <<R(0), tEnd>>
      [] i = 2 -> <<R(0), cutoffs[1]>>
      [] i = 3 -> <<R(0), cutoffs[2]>>
      [] i = 4 -> <<cutoffs[2], tEnd>>

RowAsClaimed(row, i, curves, cutoffs, tEnd) ==
    /\ row.label = RowLabels[i]
    /\ aucInWindow(curves.combined, RowWindow(i, cutoffs, tEnd)[1],
                   RowWindow(i, cutoffs, tEnd)[2]) = Ok(row.idifAUC)
    /\ aucInWindow(curves.real, RowWindow(i, cutoffs, tEnd)[1],
                   RowWindow(i, cutoffs, tEnd)[2]) = Ok(row.realAUC)

\* C4: a handleCompute that succeeds stores exactly four rows, in the order
\* total [0,tEnd], [0,cutoffA], [0,cutoffB], [cutoffB,tEnd], and the two AUCs
\* of each row are aucInWindow of the matched combined and the matched real
\* curve over that row's window.
C4_FourRows ==
    [][(HandleCompute /\ error'.kind = "none") =>
          /\ Len(results') = 4
          /\ matchedCurves'.set
          /\ tEndCommon'.set
          /\ \A i \in 1..4 :
                RowAsClaimed(results'[i], i, matchedCurves'.v, timeCutoffs,
                             tEndCommon'.v)]_vars

\* a successful report on curves with different end times, so that the real
\* curve was cut at 15 and the rows are over [0,15], [0,5], [0,10], [10,15]
C4_Witness ==
    /\ Succeeded
    /\ Len(results) = 4
    /\ tEndCommon = Some(R(15))
    /\ timeCutoffs = <<R(5), R(10)>>
    /\ \E i \in 1..Len(realPoints) : realPoints[i].time = R(20)
    /\ Last(matchedCurves.v.real).time = R(15)
    /\ results[4].realAUC # results[1].realAUC

\* C5: in every stored row biasPercent is the dash exactly when the row's
\* realAUC is 0, and otherwise it is the number b with
\* b * realAUC = (combinedAUC - realAUC) * 100.
C5_BiasPercent ==
    \A i \in 1..Len(results) :
        /\ (~results[i].biasPercent.num) <=> (results[i].realAUC = R(0))
        /\ results[i].biasPercent.num =>
              RMul(results[i].biasPercent.v, results[i].realAUC)
                 = RMul(RSub(results[i].idifAUC, results[i].realAUC), R(100))

\* a report with a dash row (realAUC 0) next to a row with a non-zero bias
C5_Witness ==
    /\ Len(results) = 4
    /\ \E i \in 1..4 : ~results[i].biasPercent.num /\ results[i].idifAUC # R(0)
    /\ \E i \in 1..4 : /\ results[i].biasPercent.num
                       /\ results[i].biasPercent.v # R(0)

\* the ways a report computation fails: a curve does not parse, the matched
\* end time is not above the threshold, or a row's window is empty or reversed
ReportFailsAt(m, cutoffs) ==
    \/ ~m.ok
    \/ EndTimeCheck(m.val.tEndCommon)
    \/ \E i \in 1..4 : RLe(RowWindow(i, cutoffs, m.val.tEndCommon)[2],
                           RowWindow(i, cutoffs, m.val.tEndCommon)[1])

ParsedFails(parsed, cutoffs) ==
    \/ ~parsed.ok
    \/ ReportFailsAt(Matched(parsed.val), cutoffs)

ReportFails(rPoints, cPoints, cutoffs) ==
    ParsedFails(parsePastedText(FormatPoints(rPoints), FormatPoints(cPoints)),
                cutoffs)

\* C6: from any prior state, a handleCompute that fails leaves results empty
\* and error set: no row computed before the failure is stored.
C6_NoPartialRows ==
    [][(/\ HandleCompute
        /\ \/ ReportFails(realPoints, combinedPoints, timeCutoffs)
           \/ error'.kind # "none")
          => (results' = <<>> /\ error'.kind # "none")]_vars

\* a report that showed four rows and then failed at a row's window, after
\* earlier rows had been computed
C6_Witness ==
    /\ priorRows = 4
    /\ error.kind = KindInvalid
    /\ results = <<>>

\* C7 as stated: whenever error is set, tEndCommon is null and no matched
\* curves are stored.
C7_NothingStoredOnError ==
    Failed => (~tEndCommon.set /\ ~matchedCurves.set)

\* the index of the last point of points that has time t
LastWithTime(points, t) ==
    CHOOSE i \in 1..Len(points) :
        /\ points[i].time = t
        /\ \A j \in (i + 1)..Len(points) : points[j].time # t

\* the least time among points
MinTime(points) ==
    CHOOSE t \in {points[i].time : i \in 1..Len(points)} :
        \A j \in 1..Len(points) : RLe(t, points[j].time)

\* C8: parseCurve fails with the insufficient-points error when fewer than 2
\* points are extracted from the text, and with the start-time error when 2
\* or more are extracted and the earliest time is not 0; in both cases no
\* curve is returned.
C8_ParseCurveErrors ==
    (call.fn = "parseCurve" /\ Returned) =>
        /\ Len(parseRawPoints(call.args[1])) < 2 =>
              /\ ~ret.ok
              /\ ret.err = ErrInsufficient(call.args[2],
                                           Len(parseRawPoints(call.args[1])))
              /\ ret.val = <<>>
        /\ (/\ Len(parseRawPoints(call.args[1])) >= 2
            /\ MinTime(parseRawPoints(call.args[1])) # R(0)) =>
              /\ ~ret.ok
              /\ ret.err = ErrStartTime(call.args[2])
              /\ ret.val = <<>>

\* a text of two data lines whose earliest time is 5
C8_Witness ==
    /\ call.fn = "parseCurve"
    /\ Returned
    /\ Len(parseRawPoints(call.args[1])) = 2
    /\ MinTime(parseRawPoints(call.args[1])) = R(5)
    /\ ret.err.kind = KindStartTime

\* C9 as stated: every curve parseCurve returns has at least 2 points, has
\* strictly increasing times and starts at time 0.
C9_CurveInvariant ==
    (call.fn = "parseCurve" /\ Returned /\ ret.ok) =>
        /\ Len(ret.val.points) >= 2
        /\ StrictlyIncreasing(ret.val.points)
        /\ ret.val.points[1].time = R(0)

\* C10: normalizeCurve returns one point per distinct input time, in
\* ascending time order, each with the activity of the last input point that
\* has that time.
C10_Normalize ==
    (call.fn = "normalizeCurve" /\ Returned) =>
        /\ StrictlyIncreasing(ret.val.points)
        /\ {ret.val.points[i].time : i \in 1..Len(ret.val.points)}
              = {call.args[1][i].time : i \in 1..Len(call.args[1])}
        /\ \A i \in 1..Len(ret.val.points) :
              ret.val.points[i].activity =
                 call.args[1][LastWithTime(call.args[1],
                                           ret.val.points[i].time)].activity

\* three points out of order, two of them sharing a time with different
\* activities
C10_Witness ==
    /\ call.fn = "normalizeCurve"
    /\ Returned
    /\ Len(call.args[1]) = 3
    /\ Len(ret.val.points) = 2
    /\ ~WasMonotonic(call.args[1])
    /\ \E i, j \in 1..3 : /\ i < j
                          /\ call.args[1][i].time = call.args[1][j].time
                          /\ call.args[1][i].activity # call.args[1][j].activity

\* C11: normalizing a normalized curve changes nothing: applied to the points
\* normalizeCurve returned, together with the warnings array as it left it,
\* normalizeCurve returns the same points and pushes no warning.
C11_Idempotent ==
    (call.fn = "normalizeCurve" /\ Returned) =>
        normalizeCurve(ret.val.points, ret.val.warnings) = ret.val

\* a first application that had to reorder and to drop a duplicate, and that
\* pushed both warnings
C11_Witness ==
    /\ call.fn = "normalizeCurve"
    /\ Returned
    /\ call.args[1] # ret.val.points
    /\ Len(ret.val.points) < Len(call.args[1])
    /\ Len(ret.val.warnings) = Len(call.args[2]) + 2
    /\ normalizeCurve(ret.val.points, <<>>).warnings = <<>>

\* two points of the array share a time
HasDuplicate(points) ==
    \E i, j \in 1..Len(points) : i < j /\ points[i].time = points[j].time

\* a point of the array has a smaller time than the point before it
OutOfOrder(points) ==
    \E i \in 2..Len(points) : RLt(points[i].time, points[i - 1].time)

\* out is inp sorted by time with one point per time, the last of inp
IsCorrected(out, inp) ==
    /\ StrictlyIncreasing(out)
    /\ {out[i].time : i \in 1..Len(out)} = {inp[i].time : i \in 1..Len(inp)}
    /\ \A i \in 1..Len(out) :
          out[i].activity = inp[LastWithTime(inp, out[i].time)].activity

\* the warnings the anomalies of points call for, in the order they are pushed
AnomalyKinds(points) ==
    (IF HasDuplicate(points) THEN <<WarnDuplicate(<<>>).kind>> ELSE <<>>)
    \o (IF OutOfOrder(points) THEN <<WarnReorder.kind>> ELSE <<>>)

KindsOf(warns) == [i \in 1..Len(warns) |-> warns[i].kind]

\* a text from which at least 2 points are extracted, the earliest at time 0
Recoverable(text) ==
    /\ Len(parseRawPoints(text)) >= 2
    /\ MinTime(parseRawPoints(text)) = R(0)

\* C12: a text with at least 2 extracted points whose smallest time is 0
\* always parses, whatever duplicate or out-of-order times it has: parseCurve
\* returns the corrected curve and reports the anomalies as warnings only,
\* and parsePastedText returns the Real curve's warnings before the Combined
\* curve's.
C12_AnomaliesOnlyWarn ==
    /\ (call.fn = "parseCurve" /\ Returned /\ Recoverable(call.args[1])) =>
          /\ ret.ok
          /\ IsCorrected(ret.val.points, parseRawPoints(call.args[1]))
          /\ KindsOf(ret.val.warnings)
                = AnomalyKinds(parseRawPoints(call.args[1]))
    /\ (/\ call.fn = "parsePastedText"
        /\ Returned
        /\ Recoverable(call.args[1])
        /\ Recoverable(call.args[2])) =>
          /\ ret.ok
          /\ IsCorrected(ret.val.realPoints, parseRawPoints(call.args[1]))
          /\ IsCorrected(ret.val.combinedPoints, parseRawPoints(call.args[2]))
          /\ KindsOf(ret.val.warnings)
                = AnomalyKinds(parseRawPoints(call.args[1]))
                  \o AnomalyKinds(parseRawPoints(call.args[2]))

\* a Real text with a repeated time only and a Combined text out of order
\* only: the duplicate warning comes first
C12_Witness ==
    /\ call.fn = "parsePastedText"
    /\ Returned
    /\ ret.ok
    /\ HasDuplicate(parseRawPoints(call.args[1]))
    /\ ~OutOfOrder(parseRawPoints(call.args[1]))
    /\ OutOfOrder(parseRawPoints(call.args[2]))
    /\ ~HasDuplicate(parseRawPoints(call.args[2]))
    /\ KindsOf(ret.val.warnings) = <<WarnDuplicate(<<>>).kind, WarnReorder.kind>>

\* C13 as stated: asked at the time of any of its points, first, last or
\* interior, getValueAt returns exactly that point's activity.
C13_ExactAtSamples ==
    (call.fn = "getValueAt" /\ Returned) =>
        \A i \in 1..Len(call.args[1]) :
            call.args[1][i].time = call.args[2] =>
                ret = Ok(call.args[1][i].activity)

\* the value at T of the straight line through p0 and p1
LineThrough(p0, p1, T) ==
    RAdd(p0.activity,
         RDiv(RMul(RSub(p1.activity, p0.activity), RSub(T, p0.time)),
              RSub(p1.time, p0.time)))

\* C14: for T strictly between two adjacent points (t0,y0) and (t1,y1) of a
\* strictly increasing curve getValueAt returns
\* y0 + (y1 - y0) * (T - t0) / (t1 - t0), the value of the line through that
\* pair.
C14_LinearBetweenAdjacent ==
    (call.fn = "getValueAt" /\ Returned) =>
        \A i \in 1..(Len(call.args[1]) - 1) :
            (/\ RLt(call.args[1][i].time, call.args[2])
             /\ RLt(call.args[2], call.args[1][i + 1].time)) =>
                ret = Ok(LineThrough(call.args[1][i], call.args[1][i + 1],
                                     call.args[2]))

\* T inside the second segment of a curve whose first segment, prolonged to
\* T, gives another value
C14_Witness ==
    /\ call.fn = "getValueAt"
    /\ Returned
    /\ Len(call.args[1]) = 3
    /\ RLt(call.args[1][2].time, call.args[2])
    /\ RLt(call.args[2], call.args[1][3].time)
    /\ ret.ok
    /\ ret.val # LineThrough(call.args[1][1], call.args[1][2], call.args[2])
    /\ ret.val # call.args[1][2].activity
    /\ ret.val # call.args[1][3].activity

\* C15: for a curve of at least 2 points getValueAt below the first time
\* returns the value of the line through the first two points and above the
\* last time the value of the line through the last two points; it does not
\* clamp to the boundary activity.
C15_Extrapolates ==
    (call.fn = "getValueAt" /\ Returned /\ Len(call.args[1]) >= 2) =>
        /\ RLt(call.args[2], call.args[1][1].time) =>
              ret = Ok(LineThrough(call.args[1][1], call.args[1][2],
                                   call.args[2]))
        /\ RLt(Last(call.args[1]).time, call.args[2]) =>
              ret = Ok(LineThrough(call.args[1][Len(call.args[1]) - 1],
                                   Last(call.args[1]), call.args[2]))

\* the curve [(0,0),(10,10)] asked at 15 gives 15, not the last activity 10
C15_Witness ==
    /\ call = Call("getValueAt", <<<<Pt(R(0), R(0)), Pt(R(10), R(10))>>, R(15)>>)
    /\ ret = Ok(R(15))

\* C16: for a curve of at least 2 strictly increasing points and a < b,
\* wherever a and b lie, clipCurveToInterval returns an array whose first
\* point has time a and whose last point has time b.
C16_ClipBoundaries ==
    (/\ call.fn = "clipCurveToInterval"
     /\ Returned
     /\ Len(call.args[1]) >= 2
     /\ RLt(call.args[2], call.args[3])) =>
        /\ ret.ok
        /\ Len(ret.val) >= 2
        /\ ret.val[1].time = call.args[2]
        /\ Last(ret.val).time = call.args[3]
        /\ \A i \in 2..(Len(ret.val) - 1) :
              ret.val[i].time # call.args[2] /\ ret.val[i].time # call.args[3]

\* a window that starts before the first point and ends after the last one
C16_Witness ==
    /\ call.fn = "clipCurveToInterval"
    /\ Returned
    /\ Len(call.args[1]) = 3
    /\ RLt(call.args[2], call.args[1][1].time)
    /\ RLt(Last(call.args[1]).time, call.args[3])
    /\ ret.ok
    /\ Len(ret.val) = 5

NonNegative(points) ==
    \A i \in 1..Len(points) : RLe(R(0), points[i].activity)

\* the result of aucInWindow(points, 0, x) is at most that of
\* aucInWindow(points, 0, y)
AucNotAbove(points, auc, y) ==
    /\ aucInWindow(points, R(0), y).ok
    /\ RLe(auc, aucInWindow(points, R(0), y).val)

InvalidWindowThrown(a, b) ==
    /\ ~ret.ok
    /\ ret.err.kind = KindInvalid
    /\ ret.err.detail = <<a, b>>

\* what aucInWindow returns for a < b: trapezoidAUC of the clipped curve,
\* or the error of the clip
AucOfClip(clipped) ==
    IF clipped.ok THEN ret = Ok(trapezoidAUC(clipped.val))
    ELSE ~ret.ok /\ ret.err.kind = clipped.err.kind

AucContract ==
    (call.fn = "aucInWindow" /\ Returned) =>
        /\ RLe(call.args[3], call.args[2]) =>
              InvalidWindowThrown(call.args[2], call.args[3])
        /\ RLt(call.args[2], call.args[3]) =>
              AucOfClip(clipCurveToInterval(call.args[1], call.args[2],
                                            call.args[3]))

\* the report computation gets as far as its windows: both tables parse and
\* the matched end time passes the end-time check
WindowsReached(parsed) ==
    /\ parsed.ok
    /\ Matched(parsed.val).ok
    /\ ~EndTimeCheck(Matched(parsed.val).val.tEndCommon)

NonPositiveCutoff(cutoffs) ==
    RLe(cutoffs[1], R(0)) \/ RLe(cutoffs[2], R(0))

ReportEndsInvalid ==
    /\ ret.val.error.kind = KindInvalid
    /\ ret.val.results = <<>>

\* C18 as stated: aucInWindow throws the invalid-window error whenever
\* a >= b, whatever the curve, and for a < b returns trapezoidAUC of the
\* clipped curve; and EVERY report computation with cutoffA <= 0 or
\* cutoffB <= 0 ends in the invalid-window error.
C18_AnyReport ==
    /\ AucContract
    /\ (/\ call.fn = "handleCompute"
        /\ Returned
        /\ NonPositiveCutoff(call.args[3])) => ReportEndsInvalid

\* C18 amended: the same, for the report computations in which both curves
\* parse and the common end time is above 10.
C18_InvalidWindow ==
    /\ AucContract
    /\ (/\ call.fn = "handleCompute"
        /\ Returned
        /\ NonPositiveCutoff(call.args[3])
        /\ WindowsReached(parsePastedText(FormatPoints(call.args[1]),
                                          FormatPoints(call.args[2]))))
          => ReportEndsInvalid

\* a report on two valid curves with cutoffB = -5, stopped at the window
\* [0, -5] of its third row
C18_Witness ==
    /\ call.fn = "handleCompute"
    /\ Returned
    /\ call.args[3] = <<R(5), R(0 - 5)>>
    /\ ret.val.tEndCommon = Some(R(15))
    /\ ret.val.error = ErrInvalidWindow(R(0), R(0 - 5))
    /\ ret.val.results = <<>>

\* the points of a strictly increasing array up to time tEnd
UpTo(points, tEnd) ==
    SubSeq(points, 1,
           Cardinality({i \in 1..Len(points) : RLe(points[i].time, tEnd)}))

HasSampleAt(points, tEnd) ==
    \E i \in 1..Len(points) : points[i].time = tEnd

\* out is points matched to the end time tEnd <= its last time
MatchedTo(out, points, tEnd) ==
    IF Last(points).time = tEnd THEN out = points
    ELSE IF HasSampleAt(points, tEnd) THEN out = UpTo(points, tEnd)
    ELSE /\ getValueAt(points, tEnd).ok
         /\ out = Append(UpTo(points, tEnd),
                         Pt(tEnd, getValueAt(points, tEnd).val))

\* C19: of the curves matchEndTimes returns, the one whose last time is the
\* common end time has exactly its original points, and the one that ends
\* later has its points with time <= the common end time, followed by one
\* point (tEndCommon, getValueAt(original, tEndCommon)) if and only if the
\* original has no point at exactly that time.
C19_MatchedCurves ==
    (call.fn = "matchEndTimes" /\ Returned /\ ret.ok) =>
        /\ MatchedTo(ret.val.realMatched, call.args[1],
                     RMin(Last(call.args[1]).time, Last(call.args[2]).time))
        /\ MatchedTo(ret.val.combinedMatched, call.args[2],
                     RMin(Last(call.args[1]).time, Last(call.args[2]).time))

\* the Combined curve ends later and has a point at the common end time: it
\* is cut there and nothing is added, the Real curve is returned as it was
C19_Witness ==
    /\ call.fn = "matchEndTimes"
    /\ Returned
    /\ ret.ok
    /\ Len(call.args[2]) = 3
    /\ call.args[2][2].time = Last(call.args[1]).time
    /\ ret.val.combinedMatched = SubSeq(call.args[2], 1, 2)
    /\ ret.val.realMatched = call.args[1]

\* C20 as stated: in every reachable state every clipCurveToInterval call of
\* the program has a < b. The calls through aucInWindow come after its
\* a >= b check; the other calls are those of the four charts, made in every
\* state that shows the charts with the current cutoffs and the stored end
\* time.
C20_ClipCallsOrdered ==
    ChartsShown =>
        \A i \in 1..4 :
            /\ Chart(i).set
            /\ RLt(Chart(i).v.startTime, Chart(i).v.endTime)

\* (y0 + y1) / 2 * (t1 - t0) for the pair of points i, i + 1
PairArea(points, i) ==
    RMul(RDiv(RAdd(points[i].activity, points[i + 1].activity), R(2)),
         RSub(points[i + 1].time, points[i].time))

\* the sum of PairArea over the pairs i, i + 1, ..., taken from the first on
RECURSIVE PairAreasFrom(_, _)
PairAreasFrom(points, i) ==
    IF i >= Len(points) THEN R(0)
    ELSE RAdd(PairArea(points, i), PairAreasFrom(points, i + 1))

\* C21: trapezoidAUC returns 0 for fewer than 2 points and otherwise the sum
\* over the consecutive pairs of (y0 + y1) / 2 * (t1 - t0), negative
\* activities taken as they are.
C21_TrapezoidSum ==
    (call.fn = "trapezoidAUC" /\ Returned) =>
        /\ Len(call.args[1]) < 2 => ret = Ok(R(0))
        /\ Len(call.args[1]) >= 2 => ret = Ok(PairAreasFrom(call.args[1], 1))

\* [(0,0),(5,10),(10,0)] gives 50
C21_Witness ==
    /\ call = Call("trapezoidAUC",
                   <<<<Pt(R(0), R(0)), Pt(R(5), R(10)), Pt(R(10), R(0))>>>>)
    /\ ret = Ok(R(50))

\* the area between tEnd and cutoff under the line through the last two
\* points of a matched curve, which ends at tEnd
ExtendedArea(curve, tEnd, cutoff) ==
    RMul(RDiv(RAdd(Last(curve).activity,
                   LineThrough(curve[Len(curve) - 1], Last(curve), cutoff)),
              R(2)),
         RSub(cutoff, tEnd))

\* the report has its four rows, and its 0-cutoffA row holds for each
\* matched curve the area over [0, tEnd] plus the extrapolated stretch
\* [tEnd, cutoffA]
FullWindowRow(out, cutoffA) ==
    /\ out.error = NoError
    /\ Len(out.results) = 4
    /\ out.results[2].idifAUC =
           RAdd(out.results[1].idifAUC,
                ExtendedArea(out.matchedCurves.v.combined, out.tEndCommon.v,
                             cutoffA))
    /\ out.results[2].realAUC =
           RAdd(out.results[1].realAUC,
                ExtendedArea(out.matchedCurves.v.real, out.tEndCommon.v,
                             cutoffA))

\* a report computation that reached a common end time above 10 and above
\* cutoffB, with cutoffA beyond that end time
CutoffBeyondEnd ==
    /\ call.fn = "handleCompute"
    /\ Returned
    /\ ret.val.tEndCommon.set
    /\ RLt(R(EndTimeThreshold), ret.val.tEndCommon.v)
    /\ RLt(call.args[3][2], ret.val.tEndCommon.v)
    /\ RLt(ret.val.tEndCommon.v, call.args[3][1])

\* C22 as stated: whenever cutoffA exceeds commonEndTime, and commonEndTime
\* is above 10 and above cutoffB, the report succeeds and its 0-cutoffA row
\* is over the full window [0, cutoffA].
C22_AnyCutoffB ==
    CutoffBeyondEnd => FullWindowRow(ret.val, call.args[3][1])

\* C22 amended: cutoffs are never clamped: when cutoffA exceeds
\* commonEndTime, commonEndTime is above 10 and 0 < cutoffB < commonEndTime,
\* the report succeeds and the AUCs of its 0-cutoffA row are over the full
\* window [0, cutoffA], the value at cutoffA extrapolated linearly from the
\* last two points of each matched curve, not over [0, commonEndTime].
C22_CutoffsNotClamped ==
    (CutoffBeyondEnd /\ RLt(R(0), call.args[3][2])) =>
        FullWindowRow(ret.val, call.args[3][1])

\* cutoffA = 20 on curves matched at 15: the 0-20 row of the combined curve
\* is 20, the area up to 15 is 5
C22_Witness ==
    /\ CutoffBeyondEnd
    /\ call.args[3] = <<R(20), R(5)>>
    /\ ret.val.tEndCommon = Some(R(15))
    /\ Len(ret.val.results) = 4
    /\ ret.val.results[1].idifAUC = R(5)
    /\ ret.val.results[2].idifAUC = R(20)

\* the times of an array of points
TimesOf(points) == {points[i].time : i \in 1..Len(points)}

\* the sample times of points that lie strictly between a and b
TimesBetween(points, a, b) ==
    {t \in TimesOf(points) : RLt(a, t) /\ RLt(t, b)}

\* point p is one of the points of the array
Holds(points, p) == \E j \in 1..Len(points) : points[j] = p

SpecInterp ==
    /\ InitCall(ValueCalls \cup ClipCalls)
    /\ [][ApplyGetValueAt \/ ApplyClipCurveToInterval]_vars

\* the call threw error e and returned nothing
Threw(e) == ~ret.ok /\ ret.err = e /\ ret.val = <<>>

\* C24: on a curve with zero points getValueAt fails with its empty-curve
\* error for every t, and clipCurveToInterval with its empty-curve error for
\* every a and b; neither returns a value.
C24_EmptyCurve ==
    (Returned /\ call.args[1] = <<>>) =>
        /\ call.fn = "getValueAt" => Threw(ErrEmptyInterp)
        /\ call.fn = "clipCurveToInterval" => Threw(ErrEmptyClip)

\* the empty array clipped to a window that is not even ordered
C24_Witness ==
    /\ call = Call("clipCurveToInterval", <<<<>>, R(10), R(0)>>)
    /\ Threw(ErrEmptyClip)

\* the warnings a normalizeCurve call pushed onto the array it was given
Appended == SubSeq(ret.val.warnings, Len(call.args[2]) + 1,
                   Len(ret.val.warnings))

\* how many of the warnings are of the kind
CountKind(warns, kind) ==
    Cardinality({i \in 1..Len(warns) : warns[i].kind = kind})

\* C25: normalizeCurve appends a duplicate-time warning if and only if some
\* time occurs more than once in its input, and a reorder warning if and only
\* if some point of the original input has a smaller time than the point
\* before it; an input that is already strictly increasing yields no warning.
C25_WarningsIff ==
    (call.fn = "normalizeCurve" /\ Returned) =>
        /\ SubSeq(ret.val.warnings, 1, Len(call.args[2])) = call.args[2]
        /\ CountKind(Appended, WarnDuplicate(<<>>).kind) =
              (IF HasDuplicate(call.args[1]) THEN 1 ELSE 0)
        /\ CountKind(Appended, WarnReorder.kind) =
              (IF OutOfOrder(call.args[1]) THEN 1 ELSE 0)
        /\ Len(Appended) =
              CountKind(Appended, WarnDuplicate(<<>>).kind)
              + CountKind(Appended, WarnReorder.kind)
        /\ StrictlyIncreasing(call.args[1]) => Appended = <<>>

\* a time repeated with another time in between, so out of order as well:
\* both warnings, the duplicate one first
C25_Witness ==
    /\ call.fn = "normalizeCurve"
    /\ Returned
    /\ Len(call.args[1]) = 3
    /\ call.args[1][1].time = call.args[1][3].time
    /\ call.args[1][2].time # call.args[1][1].time
    /\ KindsOf(Appended) = <<WarnDuplicate(<<>>).kind, WarnReorder.kind>>

\* the Curve invariant: strictly increasing times, at least 2 points, the
\* first at time 0
IsCurve(points) ==
    /\ Len(points) >= 2
    /\ StrictlyIncreasing(points)
    /\ points[1].time = R(0)

\* C26: given two input curves that satisfy the Curve invariant, both curves
\* returned by matchEndTimes satisfy it too (strictly increasing times, at
\* least 2 points, first time 0), and their last time is commonEndTime > 0.
C26_MatchKeepsInvariant ==
    (/\ call.fn = "matchEndTimes"
     /\ Returned
     /\ IsCurve(call.args[1])
     /\ IsCurve(call.args[2])) =>
        /\ ret.ok
        /\ IsCurve(ret.val.realMatched)
        /\ IsCurve(ret.val.combinedMatched)
        /\ Last(ret.val.realMatched).time = ret.val.tEndCommon
        /\ Last(ret.val.combinedMatched).time = ret.val.tEndCommon
        /\ RLt(R(0), ret.val.tEndCommon)

\* a Real curve of two points cut between them: the matched curve is its
\* first point and the interpolated point at the common end time
C26_Witness ==
    /\ call.fn = "matchEndTimes"
    /\ Returned
    /\ IsCurve(call.args[1])
    /\ IsCurve(call.args[2])
    /\ Len(call.args[1]) = 2
    /\ RLt(Last(call.args[2]).time, Last(call.args[1]).time)
    /\ ret.ok
    /\ Len(ret.val.realMatched) = 2
    /\ ret.val.realMatched[2] # call.args[1][2]

\* window bounds for the areas of matched curves: sample times and times
\* between samples
SpanTimes == {R(0), R(4), R(5), R(7), R(10), R(15)}

\* the windows 0 <= a < b <= tEnd
WindowsWithin(tEnd) ==
    {w \in SpanTimes \X SpanTimes : RLt(w[1], w[2]) /\ RLe(w[2], tEnd)}

\* the matched curve has the area of the original over every window of the
\* common span
SameAreas(matched, original, tEnd) ==
    \A w \in WindowsWithin(tEnd) :
        /\ aucInWindow(original, w[1], w[2]).ok
        /\ aucInWindow(matched, w[1], w[2])
              = aucInWindow(original, w[1], w[2])

AdditiveCutoffsA == {5, 20}
AdditiveCutoffsB == {0 - 5, 4, 5, 10, 12, 15}

AdditiveCalls ==
    {Call("handleCompute", <<rPoints, cPoints, <<R(cutoffA), R(cutoffB)>>>>) :
        rPoints \in ReportCurves, cPoints \in IncCurves,
        cutoffA \in AdditiveCutoffsA, cutoffB \in AdditiveCutoffsB}

SpecReport == InitCall(AdditiveCalls) /\ [][ApplyHandleCompute]_vars

\* the report computation returned without an error and with its rows
ReportSucceeded ==
    /\ call.fn = "handleCompute"
    /\ Returned
    /\ ret.val.error = NoError
    /\ ret.val.results # <<>>

C29_RowsIffNoError ==
    /\ [](error.kind # "none" => results = <<>>)
    /\ [][HandleCompute =>
            /\ (Len(results') = 4) <=> (error'.kind = "none")
            /\ error'.kind # "none" => results' = <<>>]_vars

\* four rows were shown, a curve ending at 10 was pasted, and the next
\* compute ended in the end-time error with no rows left
C29_Witness ==
    /\ priorRows = 4
    /\ error.kind = KindEndTime
    /\ results = <<>>
    /\ tEndCommon = Some(R(10))

\* the computed outputs the report section shows
Computed == <<results, error, warnings, tEndCommon>>

\* a paste, a clear, a cell edit, an added or deleted row, or a cutoff change
InputChange ==
    \/ HandlePaste
    \/ HandleKeyDown
    \/ HandleCellEdit
    \/ HandleAddRow
    \/ HandleDeleteRow
    \/ SetCutoff1
    \/ SetCutoff2

\* C30: only handleCompute changes the computed outputs: pasting a curve,
\* clearing it, editing, adding or deleting a row, or changing a cutoff
\* leaves results, error, warnings and tEndCommon unchanged, so the table
\* shown can belong to other points and cutoffs than the current ones.
C30_OnlyComputeChangesOutputs ==
    [][/\ InputChange => UNCHANGED Computed
       /\ Computed' # Computed => HandleCompute]_vars

\* four rows are shown although the Real table has been cleared since, and a
\* compute now would fail
C30_Witness ==
    /\ Len(results) = 4
    /\ error = NoError
    /\ realPoints = <<>>
    /\ ComputeOutcome(realPoints, combinedPoints, timeCutoffs,
                      matchedCurves).results # results

====
